---------------------------- MODULE Spec2Model ----------------------------
(***************************************************************************)
(* A model of the enrichment passes of fasthtml_geo.py.                    *)
(*                                                                         *)
(* ContentChunker.__ft__ is modelled one loop iteration per step.  A block *)
(* is identified by its position in the list find_all returns (its HTML    *)
(* fragment in the code) and described by the number of whitespace-        *)
(* separated words of its stripped text; a block whose stripped text is    *)
(* empty has zero words.                                                   *)
(*                                                                         *)
(* CitationOptimizer.__ft__ is modelled one loop iteration per step.  The  *)
(* parsed document is the sequence of its nodes in document order; the     *)
(* first tgt_end of them lie inside the insertion target (soup.body when   *)
(* the document has a body, else the whole document).  A citation record   *)
(* is represented by its id.                                               *)
(*                                                                         *)
(* Two concurrent CitationOptimizer renders (sessions), the                *)
(* TechnicalTermOptimizer pass (annot) and the JSON-LD builders (schema)   *)
(* each have a specification of their own, and so has the segmentation of  *)
(* a content tree into the chunker's blocks (seg); the passes that a       *)
(* specification does not run stay idle.                                   *)
(***************************************************************************)
EXTENDS Integers, Sequences, FiniteSets, TLC

VARIABLES
    blocks,       \* word count of each block soup.find_all returned, in document order
    max_tokens,   \* ContentChunker.max_tokens
    overlap,      \* ContentChunker.overlap
    bi,           \* position of the for-loop over blocks (next block to visit)
    cur,          \* current chunk: sequence of <<block, t>>
    tok,          \* running token total of cur
    chunks,       \* emitted chunks: sequence of sequences of blocks
    pc,           \* "idle" | "loop" | "done"
    outcome,      \* "none" | "running" | "returned" | "raised"
    element,      \* CitationOptimizer.element: the nodes of the input, in document order
    citations,    \* CitationOptimizer.citations: the id of each record, in list order
    soup,         \* the parsed document being rewritten
    tgt_end,      \* number of leading nodes of soup that lie inside target
    ci,           \* position of the running for-loop over citations
    cite_pc,      \* "idle" | "insert" | "replace" | "refs" | "done"
    cite_outcome, \* "none" | "running" | "returned" | "raised"
    sessions,     \* two CitationOptimizer renders: session -> the locals of its __ft__
    annot,        \* TechnicalTermOptimizer.__ft__: its fields and locals
    schema,       \* the JSON-LD builders: the clock and the documents built so far
    seg           \* ContentChunker.__ft__: the parsed tree and the blocks taken from it

chunkVars == <<blocks, max_tokens, overlap, bi, cur, tok, chunks, pc, outcome>>

citeVars == <<element, citations, soup, tgt_end, ci, cite_pc, cite_outcome>>

restVars == <<sessions, annot, schema, seg>>

vars == <<chunkVars, citeVars, restVars>>

\* ---------------------------------------------------------------- bounds
MaxBlocks == 4
MaxWords == 3
MaxTok == 4
MaxOverlap == 2
MaxNodes == 3
MaxCites == 3

\* ---------------------------------------------------------------- helpers
Max2(a, b) == IF a >= b THEN a ELSE b
Min2(a, b) == IF a <= b THEN a ELSE b

RECURSIVE SeqsUpTo(_, _)
\* all sequences over S of length at most n
SeqsUpTo(S, n) ==
    IF n = 0 THEN {<<>>}
    ELSE LET shorter == SeqsUpTo(S, n - 1)
         IN shorter \cup {Append(s, x) : s \in {q \in shorter : Len(q) = n - 1}, x \in S}

\* est(text): max(1, len(text.split())) on a text of w words
est(w) == Max2(1, w)

\* Python's s[a:] for a list s and an integer a (negative a counts from the end)
PySliceFrom(s, a) ==
    LET start == IF a < 0 THEN Max2(Len(s) + a, 0) ELSE Min2(a, Len(s))
    IN SubSeq(s, start + 1, Len(s))

\* cur[-self.overlap:]
OverlapElementsTakeFirst(c, k) == SubSeq(c, 1, Min2(Max2(k, 0), Len(c)))
OverlapElements(c, k) == PySliceFrom(c, 0 - k)

RECURSIVE SumTok(_)
\* sum(item[1] for item in overlap_elements)
SumTok(c) == IF c = <<>> THEN 0 ELSE c[1][2] + SumTok(Tail(c))

\* [item[0] for item in cur]
ChunkOf(c) == [j \in 1..Len(c) |-> c[j][1]]

\* tok + t > self.max_tokens and cur
ExceedsNoAdd(tk, t, c, mx) == tk > mx /\ c # <<>>
ExceedsInclusive(tk, t, c, mx) == tk + t >= mx /\ c # <<>>
ExceedsEmptyToo(tk, t, c, mx) == tk + t > mx
Exceeds(tk, t, c, mx) == tk + t > mx /\ c # <<>>

\* if cur: chunks.append([item[0] for item in cur]); empty chunks get no Div
FinalChunksNoFlush(chs, c) == chs
FinalChunks(chs, c) ==
    LET all == IF c # <<>> THEN Append(chs, ChunkOf(c)) ELSE chs
    IN SelectSeq(all, LAMBDA ch : ch # <<>>)

\* no session runs
SessIdle == sessions = <<>>

\* the term pass is not running
AnnotIdle == annot = [pc |-> "idle"]

\* no document is being built
SchemaIdle == schema = [pc |-> "idle"]

\* no tree is being segmented
SegIdle == seg = [pc |-> "idle"]

\* the citation pass is not running
CiteIdle ==
    /\ element = <<>>
    /\ citations = <<>>
    /\ soup = <<>>
    /\ tgt_end = 0
    /\ ci = 0
    /\ cite_pc = "idle"
    /\ cite_outcome = "none"

\* the chunker is not running
ChunkIdle ==
    /\ blocks = <<>>
    /\ max_tokens = 0
    /\ overlap = 0
    /\ bi = 0
    /\ cur = <<>>
    /\ tok = 0
    /\ chunks = <<>>
    /\ pc = "idle"
    /\ outcome = "none"

\* ---------------------------------------------------------------- chunker
ChunkInit ==
    /\ blocks \in SeqsUpTo(0..MaxWords, MaxBlocks)
    /\ max_tokens \in (-1)..MaxTok
    /\ overlap \in (-1)..MaxOverlap
    /\ bi = 1
    /\ cur = <<>>
    /\ tok = 0
    /\ chunks = <<>>
    /\ pc = "loop"
    /\ outcome = "running"
    /\ CiteIdle
    /\ SessIdle /\ AnnotIdle /\ SchemaIdle /\ SegIdle

\* block_text is empty: continue
SkipEmpty ==
    /\ pc = "loop"
    /\ bi <= Len(blocks)
    /\ blocks[bi] = 0
    /\ bi' = bi + 1
    /\ UNCHANGED <<blocks, max_tokens, overlap, cur, tok, chunks, pc, outcome>>
    /\ UNCHANGED <<citeVars, restVars>>

\* the limit would be exceeded: close the chunk, carry the overlap, add the block
CloseChunk ==
    /\ pc = "loop"
    /\ bi <= Len(blocks)
    /\ blocks[bi] # 0
    /\ LET t == est(blocks[bi])
           ov == OverlapElements(cur, overlap)
           tk == IF ov = <<>> THEN 0 ELSE SumTok(ov)
       IN /\ Exceeds(tok, t, cur, max_tokens)
          /\ chunks' = Append(chunks, ChunkOf(cur))
          /\ cur' = Append(ov, <<bi, t>>)
          /\ tok' = tk + t
    /\ bi' = bi + 1
    /\ UNCHANGED <<blocks, max_tokens, overlap, pc, outcome>>
    /\ UNCHANGED <<citeVars, restVars>>

\* the block fits, or the chunk is empty: add the block
AddBlock ==
    /\ pc = "loop"
    /\ bi <= Len(blocks)
    /\ blocks[bi] # 0
    /\ LET t == est(blocks[bi])
       IN /\ ~Exceeds(tok, t, cur, max_tokens)
          /\ cur' = Append(cur, <<bi, t>>)
          /\ tok' = tok + t
    /\ bi' = bi + 1
    /\ UNCHANGED <<blocks, max_tokens, overlap, chunks, pc, outcome>>
    /\ UNCHANGED <<citeVars, restVars>>

\* end of input: emit the last chunk and return the Div of chunks
Finish ==
    /\ pc = "loop"
    /\ bi > Len(blocks)
    /\ chunks' = FinalChunks(chunks, cur)
    /\ pc' = "done"
    /\ outcome' = "returned"
    /\ UNCHANGED <<blocks, max_tokens, overlap, bi, cur, tok>>
    /\ UNCHANGED <<citeVars, restVars>>

ChunkNext == SkipEmpty \/ CloseChunk \/ AddBlock \/ Finish

ChunkSpec == ChunkInit /\ [][ChunkNext]_vars


\* ---------------------------------------------------------------- citations
\* the numbers ids are drawn from, and the decimal string of each
IdNums == {3, 5, 7}
DigitStr == <<"1", "2", "3", "4", "5", "6", "7", "8", "9">>

\* record ids: the int n, or the string that spells n
IdSet == ({"int"} \X IdNums) \cup {<<"str", 5>>}

\* str(c["id"])
Cid(id) == DigitStr[id[2]]

TextNode == [kind |-> "text", cid |-> "", label |-> "", entries |-> <<>>]
\* <span class="citation-marker" data-citation-id="{cid}"></span>
MarkerNode(cid) == [kind |-> "marker", cid |-> cid, label |-> "", entries |-> <<>>]
\* <cite id='cite-{cid}'>[{cid}]</cite>
CiteNode(cid) ==
    [kind |-> "cite", cid |-> cid, label |-> "[" \o cid \o "]", entries |-> <<>>]
\* <section id="references"><h2>References</h2><ol> one <li> per record </ol></section>
RefsNode(cs) == [kind |-> "refs", cid |-> "", label |-> "", entries |-> cs]

\* soup.find("span", class_="citation-marker", attrs={"data-citation-id": cid})
HasMarker(sp, cid) == \E j \in 1..Len(sp) : sp[j] = MarkerNode(cid)

\* target.append(node)
TargetAppend(sp, te, node) == SubSeq(sp, 1, te) \o <<node>> \o SubSeq(sp, te + 1, Len(sp))

\* for m in soup.find_all(marker of cid): m.replace_with(cite_tag)
ReplaceAllFirstOnly(sp, cid) ==
    [j \in 1..Len(sp) |->
        IF sp[j] = MarkerNode(cid) /\ (\A k \in 1..(j - 1) : sp[k] # MarkerNode(cid))
        THEN CiteNode(cid) ELSE sp[j]]
ReplaceAll(sp, cid) ==
    [j \in 1..Len(sp) |-> IF sp[j] = MarkerNode(cid) THEN CiteNode(cid) ELSE sp[j]]

\* refs: one Li per c in self.citations
Refs(cs) == cs

InputNodes == {TextNode} \cup {MarkerNode(DigitStr[n]) : n \in IdNums}

\* ids are unique within one citation list
Injective(s) == \A i, j \in 1..Len(s) : i # j => s[i] # s[j]

CiteInit ==
    /\ element \in SeqsUpTo(InputNodes, MaxNodes)
    /\ citations \in {cs \in SeqsUpTo(IdSet, MaxCites) : Injective(cs)}
    /\ soup = element
    /\ tgt_end \in {n \in {Len(element) - 1, Len(element)} : n >= 0}
    /\ ci = 1
    /\ cite_pc = "insert"
    /\ cite_outcome = "running"
    /\ ChunkIdle
    /\ SessIdle /\ AnnotIdle /\ SchemaIdle /\ SegIdle

\* first loop, no marker for this record: append one to target
InsertMarker ==
    /\ cite_pc = "insert"
    /\ ci <= Len(citations)
    /\ ~HasMarker(soup, Cid(citations[ci]))
    /\ soup' = TargetAppend(soup, tgt_end, MarkerNode(Cid(citations[ci])))
    /\ tgt_end' = tgt_end + 1
    /\ ci' = ci + 1
    /\ UNCHANGED <<element, citations, cite_pc, cite_outcome>>
    /\ UNCHANGED <<chunkVars, restVars>>

\* first loop, a marker for this record exists: nothing to insert
KeepMarker ==
    /\ cite_pc = "insert"
    /\ ci <= Len(citations)
    /\ HasMarker(soup, Cid(citations[ci]))
    /\ ci' = ci + 1
    /\ UNCHANGED <<element, citations, soup, tgt_end, cite_pc, cite_outcome>>
    /\ UNCHANGED <<chunkVars, restVars>>

\* the first loop is over: start the second
StartReplace ==
    /\ cite_pc = "insert"
    /\ ci > Len(citations)
    /\ cite_pc' = "replace"
    /\ ci' = 1
    /\ UNCHANGED <<element, citations, soup, tgt_end, cite_outcome>>
    /\ UNCHANGED <<chunkVars, restVars>>

\* second loop: every marker of this record becomes a <cite>
ReplaceMarkers ==
    /\ cite_pc = "replace"
    /\ ci <= Len(citations)
    /\ soup' = ReplaceAll(soup, Cid(citations[ci]))
    /\ ci' = ci + 1
    /\ UNCHANGED <<element, citations, tgt_end, cite_pc, cite_outcome>>
    /\ UNCHANGED <<chunkVars, restVars>>

\* build the references list, append it to target and return
AppendReferences ==
    /\ cite_pc = "replace"
    /\ ci > Len(citations)
    /\ soup' = TargetAppend(soup, tgt_end, RefsNode(Refs(citations)))
    /\ tgt_end' = tgt_end + 1
    /\ cite_pc' = "done"
    /\ cite_outcome' = "returned"
    /\ UNCHANGED <<element, citations, ci>>
    /\ UNCHANGED <<chunkVars, restVars>>

CiteNext == InsertMarker \/ KeepMarker \/ StartReplace \/ ReplaceMarkers \/ AppendReferences

CiteSpec == CiteInit /\ [][CiteNext]_vars

\* ---------------------------------------------------------------- chunker: derived views
Range(s) == {s[j] : j \in 1..Len(s)}

\* max_tokens > 0 and overlap >= 0
ValidCfg == max_tokens > 0 /\ overlap >= 0

\* the blocks the loop does not skip, in document order
BlockSeq == SelectSeq([j \in 1..Len(blocks) |-> j], LAMBDA j : blocks[j] # 0)

\* the blocks of chunk k that are in no earlier chunk, in chunk order
FirstSeen(k) ==
    SelectSeq(chunks[k], LAMBDA b : \A j \in 1..(k - 1) : b \notin Range(chunks[j]))

RECURSIVE FirstSeenUpTo(_)
\* FirstSeen(1) \o ... \o FirstSeen(k)
FirstSeenUpTo(k) == IF k = 0 THEN <<>> ELSE FirstSeenUpTo(k - 1) \o FirstSeen(k)

RECURSIVE Cost(_)
\* summed token estimate of a sequence of blocks
Cost(bs) == IF bs = <<>> THEN 0 ELSE est(blocks[bs[1]]) + Cost(Tail(bs))

ChunkDone == pc = "done"

\* ---------------------------------------------------------------- claims C1..C7

\* C1 (chunk coverage): for a valid configuration, the blocks first appearing in
\* each emitted chunk, concatenated in chunk order, are exactly the block
\* sequence: nothing dropped, reordered or first-appearing twice.
C1_ChunkCoverage ==
    (ChunkDone /\ ValidCfg) => FirstSeenUpTo(Len(chunks)) = BlockSeq

\* a run with a skipped empty block, three chunks and a carried-over block
C1_Witness ==
    /\ ChunkDone /\ ValidCfg /\ overlap > 0
    /\ Len(chunks) >= 3
    /\ Len(BlockSeq) < Len(blocks)
    /\ \E k \in 2..Len(chunks) : Len(FirstSeen(k)) < Len(chunks[k])

\* C2 (chunk bound): for a valid configuration, in every emitted chunk the
\* blocks first appearing in it cost at most max_tokens in total, unless they
\* are one single block whose own cost exceeds max_tokens.
C2_ChunkBound ==
    (ChunkDone /\ ValidCfg) =>
        \A k \in 1..Len(chunks) :
            \/ Cost(FirstSeen(k)) <= max_tokens
            \/ /\ Len(FirstSeen(k)) = 1
               /\ est(blocks[FirstSeen(k)[1]]) > max_tokens

\* one chunk filled to the limit by two new blocks, and one chunk whose only
\* new block is oversized and sits behind carried-over blocks
C2_Witness ==
    /\ ChunkDone /\ ValidCfg /\ overlap > 0
    /\ \E k \in 1..Len(chunks) :
        Len(FirstSeen(k)) >= 2 /\ Cost(FirstSeen(k)) = max_tokens
    /\ \E k \in 1..Len(chunks) :
        /\ Len(FirstSeen(k)) = 1
        /\ Len(chunks[k]) >= 2
        /\ Cost(FirstSeen(k)) > max_tokens

\* C3 (overlap correctness): for overlap = k > 0, the last min(k, len) blocks of
\* every chunk are the first min(k, len) blocks of the chunk after it.
C3_OverlapCorrect ==
    (ChunkDone /\ max_tokens > 0 /\ overlap > 0 /\ Len(chunks) >= 2) =>
        \A i \in 1..(Len(chunks) - 1) :
            LET n == Len(chunks[i])
                m == Min2(overlap, n)
            IN /\ Len(chunks[i + 1]) >= m
               /\ SubSeq(chunks[i], n - m + 1, n) = SubSeq(chunks[i + 1], 1, m)

\* a chunk longer than the overlap (part of it carried) followed by another,
\* and a chunk shorter than the overlap (all of it carried)
C3_Witness ==
    /\ ChunkDone /\ max_tokens > 0 /\ overlap > 0
    /\ \E i \in 1..(Len(chunks) - 1) : Len(chunks[i]) > overlap
    /\ \E i \in 1..(Len(chunks) - 1) : Len(chunks[i]) < overlap

\* C4 (overlap = 0 disables carry-over): with overlap = 0 no block is in more
\* than one chunk.
C4_ZeroOverlapPartition ==
    (ChunkDone /\ max_tokens > 0 /\ overlap = 0) =>
        \A i, j \in 1..Len(chunks) :
            i # j => Range(chunks[i]) \cap Range(chunks[j]) = {}

\* C5 (invalid configuration rejected): a call with max_tokens <= 0 or
\* overlap < 0 ends in an error and emits no chunk.
C5_InvalidCfgRejected ==
    (ChunkDone /\ ~ValidCfg) => (outcome = "raised" /\ chunks = <<>>)

\* C6 (max_tokens bounds the whole chunk): for a valid configuration every
\* emitted chunk, carried-over blocks included, costs at most max_tokens unless
\* it consists of exactly one block.  Stated for the configurations that ask
\* for carry-over (overlap >= 1); overlap = 0 is C4.
C6_WholeChunkBound ==
    (ChunkDone /\ max_tokens > 0 /\ overlap >= 1) =>
        \A k \in 1..Len(chunks) :
            Cost(chunks[k]) <= max_tokens \/ Len(chunks[k]) = 1

\* C7 (single chunk for small input): a non-empty block sequence whose total
\* cost is at most max_tokens is emitted as one chunk holding every block once,
\* in order, for every overlap >= 0.
C7_SingleChunk ==
    (ChunkDone /\ overlap >= 0 /\ BlockSeq # <<>> /\ Cost(BlockSeq) <= max_tokens) =>
        chunks = <<BlockSeq>>

\* three blocks that fill max_tokens exactly, with an overlap that would carry
C7_Witness ==
    /\ ChunkDone /\ overlap >= 0
    /\ Len(BlockSeq) >= 3
    /\ Cost(BlockSeq) = max_tokens
    /\ chunks = <<BlockSeq>>


\* ---------------------------------------------------------------- citations: derived views
CiteDone == cite_pc = "done"

RECURSIVE Dedup(_)
\* a sequence without its repeats, in order of first occurrence
Dedup(s) ==
    IF s = <<>> THEN <<>>
    ELSE LET d == Dedup(SubSeq(s, 1, Len(s) - 1))
             x == s[Len(s)]
         IN IF x \in Range(d) THEN d ELSE Append(d, x)

\* position of x in a sequence that holds it once
Rank(x, s) == CHOOSE n \in 1..Len(s) : s[n] = x

\* the cids of the visible references of the document, in document order
CitedCids(sp) ==
    LET cs == SelectSeq(sp, LAMBDA nd : nd.kind = "cite")
    IN [j \in 1..Len(cs) |-> cs[j].cid]

\* the cids of the entries of the references lists of the document
ListedCids(sp) ==
    LET rs == SelectSeq(sp, LAMBDA nd : nd.kind = "refs")
    IN IF rs = <<>> THEN <<>> ELSE [j \in 1..Len(rs[1].entries) |-> Cid(rs[1].entries[j])]

RecordCids == {Cid(citations[i]) : i \in 1..Len(citations)}

\* a marker of the input names an id that no record has
UnknownMarker ==
    \E j \in 1..Len(element) :
        element[j].kind = "marker" /\ element[j].cid \notin RecordCids

\* ---------------------------------------------------------------- claims C8..C10

\* C8 (first-seen numbering): every visible reference of the finished
\* document shows [n], n being the rank of its id among the ids in order of
\* first resolution; all references of one id show the same n.
C8_FirstSeenNumbering ==
    CiteDone =>
        \A j \in 1..Len(soup) :
            soup[j].kind = "cite" =>
                soup[j].label =
                    "[" \o DigitStr[Rank(soup[j].cid, Dedup(CitedCids(soup)))] \o "]"

\* C9 (bibliography deduplicated, first-seen ordered): the references list
\* has one entry per resolved id, in order of first resolution, whatever the
\* order of the records list.  Stated for record lists whose ids render to
\* distinct strings.
C9_BibliographyFirstSeen ==
    (CiteDone /\ Cardinality(RecordCids) = Len(citations)) =>
        ListedCids(soup) = Dedup(CitedCids(soup))

\* C10 (unknown citation id): a pass over content holding a marker whose id
\* is in no record ends in the not-found error and leaves the content as it
\* was.
C10_UnknownIdRaises ==
    (CiteDone /\ UnknownMarker) => (cite_outcome = "raised" /\ soup = element)


\* ---------------------------------------------------------------- two citation sessions
MaxSessNodes == 1
MaxSessCites == 2

Sessions == {1, 2}
SessIds == {<<"int", 3>>, <<"int", 5>>}
SessNodes == {MarkerNode(Cid(id)) : id \in SessIds}

\* soup.find(...) inside one render: soup is a local of that call
FindMarkerAnySession(ss, s, cid) == \E r \in DOMAIN ss : HasMarker(ss[r].soup, cid)
FindMarker(ss, s, cid) == HasMarker(ss[s].soup, cid)

\* the locals of a render just after target is chosen
NewSession(el, cs) ==
    [element |-> el, citations |-> cs, soup |-> el, tgt_end |-> Len(el),
     ci |-> 1, pc |-> "insert", outcome |-> "running"]

SessInit ==
    /\ sessions \in [Sessions ->
          {NewSession(el, cs) :
              el \in SeqsUpTo(SessNodes, MaxSessNodes),
              cs \in {c \in SeqsUpTo(SessIds, MaxSessCites) : Injective(c)}}]
    /\ ChunkIdle /\ CiteIdle /\ AnnotIdle /\ SchemaIdle /\ SegIdle

\* first loop of session s, no marker for this record: append one to target
SessInsertMarker(s) ==
    LET r == sessions[s]
        cid == Cid(r.citations[r.ci])
    IN /\ r.pc = "insert"
       /\ r.ci <= Len(r.citations)
       /\ ~FindMarker(sessions, s, cid)
       /\ sessions' = [sessions EXCEPT ![s] =
              [r EXCEPT !.soup = TargetAppend(r.soup, r.tgt_end, MarkerNode(cid)),
                        !.tgt_end = r.tgt_end + 1,
                        !.ci = r.ci + 1]]
       /\ UNCHANGED <<chunkVars, citeVars, annot, schema, seg>>

\* first loop of session s, a marker for this record exists
SessKeepMarker(s) ==
    LET r == sessions[s]
    IN /\ r.pc = "insert"
       /\ r.ci <= Len(r.citations)
       /\ FindMarker(sessions, s, Cid(r.citations[r.ci]))
       /\ sessions' = [sessions EXCEPT ![s] = [r EXCEPT !.ci = r.ci + 1]]
       /\ UNCHANGED <<chunkVars, citeVars, annot, schema, seg>>

\* session s: the first loop is over, start the second
SessStartReplace(s) ==
    LET r == sessions[s]
    IN /\ r.pc = "insert"
       /\ r.ci > Len(r.citations)
       /\ sessions' = [sessions EXCEPT ![s] = [r EXCEPT !.pc = "replace", !.ci = 1]]
       /\ UNCHANGED <<chunkVars, citeVars, annot, schema, seg>>

\* second loop of session s: every marker of this record becomes a <cite>
SessReplaceMarkers(s) ==
    LET r == sessions[s]
    IN /\ r.pc = "replace"
       /\ r.ci <= Len(r.citations)
       /\ sessions' = [sessions EXCEPT ![s] =
              [r EXCEPT !.soup = ReplaceAll(r.soup, Cid(r.citations[r.ci])),
                        !.ci = r.ci + 1]]
       /\ UNCHANGED <<chunkVars, citeVars, annot, schema, seg>>

\* session s: build the references list, append it to target and return
SessAppendReferences(s) ==
    LET r == sessions[s]
    IN /\ r.pc = "replace"
       /\ r.ci > Len(r.citations)
       /\ sessions' = [sessions EXCEPT ![s] =
              [r EXCEPT !.soup = TargetAppend(r.soup, r.tgt_end, RefsNode(Refs(r.citations))),
                        !.tgt_end = r.tgt_end + 1,
                        !.pc = "done",
                        !.outcome = "returned"]]
       /\ UNCHANGED <<chunkVars, citeVars, annot, schema, seg>>

SessInsertStep == \E s \in Sessions : SessInsertMarker(s)
SessKeepStep == \E s \in Sessions : SessKeepMarker(s)
SessStartReplaceStep == \E s \in Sessions : SessStartReplace(s)
SessReplaceStep == \E s \in Sessions : SessReplaceMarkers(s)
SessReferencesStep == \E s \in Sessions : SessAppendReferences(s)

SessNext ==
    SessInsertStep \/ SessKeepStep \/ SessStartReplaceStep \/ SessReplaceStep
        \/ SessReferencesStep

SessSpec == SessInit /\ [][SessNext]_vars

\* ---------------------------------------------------------------- a render run alone
RECURSIVE InsertAll(_, _, _, _)
\* the first loop from record i on: the document after it
InsertAll(sp, te, cs, i) ==
    IF i > Len(cs) THEN sp
    ELSE IF HasMarker(sp, Cid(cs[i])) THEN InsertAll(sp, te, cs, i + 1)
         ELSE InsertAll(TargetAppend(sp, te, MarkerNode(Cid(cs[i]))), te + 1, cs, i + 1)

RECURSIVE ReplaceFrom(_, _, _)
\* the second loop from record i on
ReplaceFrom(sp, cs, i) ==
    IF i > Len(cs) THEN sp ELSE ReplaceFrom(ReplaceAll(sp, Cid(cs[i])), cs, i + 1)

\* the document one render returns for content el whose target holds its first te nodes
RenderAlone(el, te, cs) ==
    LET ins == InsertAll(el, te, cs, 1)
        rep == ReplaceFrom(ins, cs, 1)
    IN TargetAppend(rep, te + (Len(ins) - Len(el)), RefsNode(Refs(cs)))

\* ---------------------------------------------------------------- claims C11, C12, C20

\* C11 (sessions isolated): under every interleaving of the steps of two
\* renders, each finished render holds the document, references and list it
\* produces when it runs alone.
C11_SessionsIsolated ==
    \A s \in DOMAIN sessions :
        sessions[s].pc = "done" =>
            sessions[s].soup =
                RenderAlone(sessions[s].element, Len(sessions[s].element), sessions[s].citations)

\* one render finished while the other, on other content, is still between
\* its two loops, and the finished render had to insert a marker the other
\* one already held
C11_Witness ==
    /\ DOMAIN sessions = Sessions
    /\ sessions[1].pc = "done"
    /\ sessions[2].pc = "replace"
    /\ sessions[1].element = <<>>
    /\ sessions[1].citations = <<<<"int", 3>>, <<"int", 5>>>>
    /\ sessions[2].element = <<MarkerNode("3")>>
    /\ sessions[2].citations = <<<<"int", 5>>, <<"int", 3>>>>

\* C12 (empty citation list is a no-op): a pass with no records returns the
\* content unchanged: no marker, reference or references section is added.
C12_EmptyListNoOp ==
    (CiteDone /\ citations = <<>>) => (cite_outcome = "returned" /\ soup = element)

\* number of nodes of kind k carrying cid in a document
CountOf(sp, k, cid) ==
    Cardinality({j \in 1..Len(sp) : sp[j].kind = k /\ sp[j].cid = cid})

\* nodes the finished pass added to the document
Added == Len(soup) - Len(element)

\* number of nodes of the input that lay inside target
TargetSize == tgt_end - Added

\* where node j of the input is in the finished document
PosOf(j) == IF j <= TargetSize THEN j ELSE j + Added

\* C20 (marker resolution complete, non-duplicating): in the finished
\* document no marker of a record id is left; every marker of a record id has
\* become a reference in place and every other input node is untouched; an id
\* with m >= 1 markers has m references, and an id with none has exactly one,
\* which lies at the end of target, after target's own content.
C20_MarkersResolved ==
    CiteDone =>
        /\ \A cid \in RecordCids : CountOf(soup, "marker", cid) = 0
        /\ \A j \in 1..Len(element) :
              IF element[j].kind = "marker" /\ element[j].cid \in RecordCids
              THEN soup[PosOf(j)].kind = "cite" /\ soup[PosOf(j)].cid = element[j].cid
              ELSE soup[PosOf(j)] = element[j]
        /\ \A cid \in RecordCids :
              LET m == CountOf(element, "marker", cid)
              IN IF m >= 1
                 THEN CountOf(soup, "cite", cid) = m
                 ELSE /\ CountOf(soup, "cite", cid) = 1
                      /\ \E j \in (TargetSize + 1)..(tgt_end - 1) :
                            soup[j].kind = "cite" /\ soup[j].cid = cid

\* a finished pass over content with two markers of one id and a node after
\* the target, with a second record that had no marker
C20_Witness ==
    /\ CiteDone
    /\ TargetSize < Len(element)
    /\ \E cid \in RecordCids : CountOf(element, "marker", cid) = 2
    /\ \E cid \in RecordCids : CountOf(element, "marker", cid) = 0

\* the stepwise pass and the render run alone agree
CiteAgreesWithRenderAlone ==
    CiteDone => soup = RenderAlone(element, TargetSize, citations)

\* ---------------------------------------------------------------- term annotation
\* A text leaf of the parsed document: its characters, the elements around it
\* from the root down to its parent, and (src) the leaf of the pass's input it
\* came from.  An element is its tag name and, for a technical-term wrapper,
\* the glossary term whose definition it carries (<<>> for any other element).
MaxText == 3
MaxLeaves == 1
MaxPasses == 2

Chars == {"a", "b"}
Terms == {<<"a">>, <<"b">>, <<"a", "b">>}

Elem(tag) == [tag |-> tag, term |-> <<>>]
\* Span(term, cls="technical-term", data-definition=desc)
WrapperElem(term) == [tag |-> "span", term |-> term]
IsWrapper(e) == e.tag = "span" /\ e.term # <<>>

Leaf(str, path, src) == [s |-> str, path |-> path, src |-> src]

\* txt.parent.name
ParentName(lf) == IF lf.path = <<>> THEN "[document]" ELSE lf.path[Len(lf.path)].tag

\* txt.parent.name in {"script", "style"}
ProtectedScriptOnly(lf) == ParentName(lf) = "script"
Protected(lf) == ParentName(lf) \in {"script", "style"}

\* the positions at which term t starts in string str
Occurrences(t, str) ==
    {q \in 1..(Len(str) - Len(t) + 1) : SubSeq(str, q, q + Len(t) - 1) = t}

\* term in txt
Occurs(t, str) == Occurrences(t, str) # {}

\* txt.partition(term), for a term that occurs: <<before, after>>
PartitionLast(str, t) ==
    LET q == CHOOSE x \in Occurrences(t, str) : \A y \in Occurrences(t, str) : y <= x
    IN <<SubSeq(str, 1, q - 1), SubSeq(str, q + Len(t), Len(str))>>
Partition(str, t) ==
    LET q == CHOOSE x \in Occurrences(t, str) : \A y \in Occurrences(t, str) : x <= y
    IN <<SubSeq(str, 1, q - 1), SubSeq(str, q + Len(t), Len(str))>>

\* the nodes that take the place of txt: before (if any), the span, after (if any)
WrapNodesNoBefore(txt, t) ==
    LET ba == Partition(txt.s, t)
    IN <<Leaf(t, Append(txt.path, WrapperElem(t)), txt.src)>>
         \o (IF ba[2] # <<>> THEN <<Leaf(ba[2], txt.path, txt.src)>> ELSE <<>>)
WrapNodes(txt, t) ==
    LET ba == Partition(txt.s, t)
    IN (IF ba[1] # <<>> THEN <<Leaf(ba[1], txt.path, txt.src)>> ELSE <<>>)
         \o <<Leaf(t, Append(txt.path, WrapperElem(t)), txt.src)>>
         \o (IF ba[2] # <<>> THEN <<Leaf(ba[2], txt.path, txt.src)>> ELSE <<>>)

RECURSIVE InnerLoop(_, _, _, _)
\* for term, desc in self.glossary.items(), from entry g on, for the text node
\* txt.  st.nodes stand where txt stood, st.attached tells whether txt is
\* still in the tree, st.raised whether insert_before raised ValueError
\* because it is not.
InnerLoop(txt, gl, g, st) ==
    IF g > Len(gl) \/ st.raised THEN st
    ELSE IF ~Occurs(gl[g], txt.s) THEN InnerLoop(txt, gl, g + 1, st)
    ELSE IF ~st.attached THEN [st EXCEPT !.raised = TRUE]
    ELSE InnerLoop(txt, gl, g + 1,
                   [nodes |-> WrapNodes(txt, gl[g]), attached |-> FALSE, raised |-> FALSE])

\* the glossary loop on one text node
Annotate(txt, gl) ==
    InnerLoop(txt, gl, 1, [nodes |-> <<txt>>, attached |-> TRUE, raised |-> FALSE])

RECURSIVE JsonText(_)
\* the text of the JSON-LD script: every term of the glossary, in order
JsonText(gl) == IF gl = <<>> THEN <<>> ELSE gl[1] \o <<",">> \o JsonText(Tail(gl))

\* _script(schema) + str(soup), as the leaves a parser finds in it
Output(gl, sp) == <<Leaf(JsonText(gl), <<Elem("script")>>, 0)>> \o sp

\* BeautifulSoup(html_body): the text nodes find_all(string=True) lists
Parsed(lvs) == [j \in 1..Len(lvs) |-> [lvs[j] EXCEPT !.src = j]]

RECURSIVE StringsUpTo(_)
\* non-empty strings of at most n characters
StringsUpTo(n) ==
    IF n = 0 THEN {}
    ELSE LET shorter == StringsUpTo(n - 1)
         IN {<<c>> : c \in Chars} \cup shorter
               \cup {Append(x, c) : x \in {y \in shorter : Len(y) = n - 1}, c \in Chars}

InputLeaves ==
    {Leaf(str, <<Elem(tag)>>, 0) : str \in StringsUpTo(MaxText), tag \in {"p", "script", "style"}}

\* a dict of terms: no key twice, in insertion order
Glossaries == {g \in SeqsUpTo(Terms, Cardinality(Terms)) : Injective(g)}

AnnotInit ==
    /\ \E el \in SeqsUpTo(InputLeaves, MaxLeaves), gl \in Glossaries :
          annot = [pc |-> "scan", outcome |-> "running", pass |-> 1,
                   element |-> Parsed(el), glossary |-> gl,
                   soup |-> Parsed(el), ti |-> 1, out |-> <<>>]
    /\ ChunkIdle /\ CiteIdle /\ SessIdle /\ SchemaIdle /\ SegIdle

\* the text node lies in a script or style element: continue
SkipProtected ==
    /\ annot.pc = "scan"
    /\ annot.ti <= Len(annot.soup)
    /\ Protected(annot.soup[annot.ti])
    /\ annot' = [annot EXCEPT !.ti = annot.ti + 1]
    /\ UNCHANGED <<chunkVars, citeVars, sessions, schema, seg>>

\* the glossary loop on the next text node runs to its end
AnnotateText ==
    /\ annot.pc = "scan"
    /\ annot.ti <= Len(annot.soup)
    /\ ~Protected(annot.soup[annot.ti])
    /\ LET r == Annotate(annot.soup[annot.ti], annot.glossary)
       IN /\ ~r.raised
          /\ annot' = [annot EXCEPT
                 !.soup = SubSeq(annot.soup, 1, annot.ti - 1) \o r.nodes
                            \o SubSeq(annot.soup, annot.ti + 1, Len(annot.soup)),
                 !.ti = annot.ti + Len(r.nodes)]
    /\ UNCHANGED <<chunkVars, citeVars, sessions, schema, seg>>

\* the glossary loop on the next text node raises ValueError
AnnotateRaise ==
    /\ annot.pc = "scan"
    /\ annot.ti <= Len(annot.soup)
    /\ ~Protected(annot.soup[annot.ti])
    /\ LET r == Annotate(annot.soup[annot.ti], annot.glossary)
       IN /\ r.raised
          /\ annot' = [annot EXCEPT
                 !.soup = SubSeq(annot.soup, 1, annot.ti - 1) \o r.nodes
                            \o SubSeq(annot.soup, annot.ti + 1, Len(annot.soup)),
                 !.pc = "done",
                 !.outcome = "raised"]
    /\ UNCHANGED <<chunkVars, citeVars, sessions, schema, seg>>

\* every text node was visited: return the script and the document
FinishAnnot ==
    /\ annot.pc = "scan"
    /\ annot.ti > Len(annot.soup)
    /\ annot' = [annot EXCEPT !.pc = "done", !.outcome = "returned",
                              !.out = Output(annot.glossary, annot.soup)]
    /\ UNCHANGED <<chunkVars, citeVars, sessions, schema, seg>>

\* the caller runs the pass again, with the same glossary, on what it returned
Rerun ==
    /\ annot.pc = "done"
    /\ annot.outcome = "returned"
    /\ annot.pass < MaxPasses
    /\ annot' = [pc |-> "scan", outcome |-> "running", pass |-> annot.pass + 1,
                 element |-> Parsed(annot.out), glossary |-> annot.glossary,
                 soup |-> Parsed(annot.out), ti |-> 1, out |-> <<>>]
    /\ UNCHANGED <<chunkVars, citeVars, sessions, schema, seg>>

AnnotNext == SkipProtected \/ AnnotateText \/ AnnotateRaise \/ FinishAnnot \/ Rerun

AnnotSpec == AnnotInit /\ [][AnnotNext]_vars

\* ---------------------------------------------------------------- term annotation: derived views
AnnotRunning == annot.pc # "idle"
AnnotReturned == annot.pc = "done" /\ annot.outcome = "returned"
AnnotEnded == annot.pc = "done"

RECURSIVE TextOf(_)
\* the characters of a sequence of leaves, in document order
TextOf(lvs) == IF lvs = <<>> THEN <<>> ELSE lvs[1].s \o TextOf(Tail(lvs))

\* the leaves of the document that came from leaf i of the pass's input
Derived(i) == SelectSeq(annot.soup, LAMBDA lf : lf.src = i)

\* number of technical-term wrappers around a leaf
Wrappers(lf) == Cardinality({k \in 1..Len(lf.path) : IsWrapper(lf.path[k])})

\* leaf lf is the text of a wrapper of term t put around text that lay at path
WrapperOf(lf, t, path) == lf.s = t /\ lf.path = Append(path, WrapperElem(t))

\* terms t and u both occur in str without sharing a character
OccurApart(t, u, str) ==
    \E q \in Occurrences(t, str), r \in Occurrences(u, str) :
        q + Len(t) <= r \/ r + Len(u) <= q

\* ---------------------------------------------------------------- claims C13..C15, C18, C19

\* C13 (several terms in one text node): when two distinct glossary terms
\* occur, non-overlapping, in one text node outside script and style, the
\* pass ends without error and that node has a wrapper of each of them.
C13_AllTermsWrapped ==
    (AnnotEnded /\ annot.pass = 1) =>
        \A i \in 1..Len(annot.element) :
            \A t, u \in Range(annot.glossary) :
                (/\ t # u
                 /\ ~Protected(annot.element[i])
                 /\ OccurApart(t, u, annot.element[i].s))
                => /\ annot.outcome = "returned"
                   /\ \E j, k \in 1..Len(Derived(i)) :
                         /\ WrapperOf(Derived(i)[j], t, annot.element[i].path)
                         /\ WrapperOf(Derived(i)[k], u, annot.element[i].path)

\* C14 (no re-wrapping): after any number of passes with the same glossary no
\* text lies inside two annotation wrappers.
C14_NoNestedWrappers ==
    AnnotRunning => \A j \in 1..Len(annot.soup) : Wrappers(annot.soup[j]) <= 1

\* C15 (visible text preserved): at every point of a pass the text leaves of
\* the document, concatenated in document order, spell what the leaves of the
\* pass's input spelled.
C15_TextPreserved ==
    AnnotRunning => TextOf(annot.soup) = TextOf(annot.element)

\* a returned first pass that split one leaf into text, wrapper and text
C15_Witness ==
    /\ AnnotReturned /\ annot.pass = 1
    /\ \E i \in 1..Len(annot.element) :
          /\ Len(Derived(i)) = 3
          /\ Wrappers(Derived(i)[2]) = 1
          /\ Derived(i)[1].s # <<>> /\ Derived(i)[3].s # <<>>

\* C18 (first occurrence only): at every point of a pass, a glossary term
\* has at most one wrapper in what a text node outside script and style has
\* become, that wrapper is around the term's leftmost occurrence, and what
\* follows it, later occurrences included, is plain text; when the pass has
\* returned, every term that occurs in the node has that wrapper.
C18_FirstOccurrenceOnly ==
    AnnotRunning =>
        \A i \in 1..Len(annot.element) :
            \A t \in Range(annot.glossary) :
                (~Protected(annot.element[i]) /\ Occurs(t, annot.element[i].s)) =>
                    LET d == Derived(i)
                        str == annot.element[i].s
                        first == CHOOSE q \in Occurrences(t, str) :
                                    \A r \in Occurrences(t, str) : q <= r
                        w == {k \in 1..Len(d) : WrapperOf(d[k], t, annot.element[i].path)}
                    IN /\ Cardinality(w) <= 1
                       /\ AnnotReturned => Cardinality(w) = 1
                       /\ \A k \in w :
                             /\ Len(TextOf(SubSeq(d, 1, k - 1))) = first - 1
                             /\ TextOf(SubSeq(d, k + 1, Len(d)))
                                  = SubSeq(str, first + Len(t), Len(str))
                             /\ \A n \in (k + 1)..Len(d) :
                                   d[n].path = annot.element[i].path

\* a returned first pass over a node in which the term occurs twice, the
\* second occurrence left in the plain text after the wrapper
C18_Witness ==
    /\ AnnotReturned /\ annot.pass = 1
    /\ \E i \in 1..Len(annot.element) :
          \E t \in Range(annot.glossary) :
              /\ ~Protected(annot.element[i])
              /\ Cardinality(Occurrences(t, annot.element[i].s)) >= 2
              /\ \E k \in 1..Len(Derived(i)) :
                    /\ Derived(i)[k].path = annot.element[i].path
                    /\ k > 1
                    /\ Wrappers(Derived(i)[k - 1]) = 1
                    /\ Occurs(t, Derived(i)[k].s)

\* C19 (script and style never annotated): at every point of a pass a text
\* leaf that lay in a script or style element is in the document unchanged,
\* and no wrapper lies inside a script or style element.
C19_ScriptStyleUntouched ==
    AnnotRunning =>
        /\ \A i \in 1..Len(annot.element) :
              Protected(annot.element[i]) => Derived(i) = <<annot.element[i]>>
        /\ \A j \in 1..Len(annot.soup) :
              \A k \in 1..Len(annot.soup[j].path) :
                  annot.soup[j].path[k].tag \in {"script", "style"} =>
                      \A n \in (k + 1)..Len(annot.soup[j].path) :
                          ~IsWrapper(annot.soup[j].path[n])

\* a returned second pass whose input held the JSON-LD script of the first
\* and a style leaf, both with a glossary term in their text
C19_Witness ==
    /\ AnnotReturned /\ annot.pass = 2
    /\ \E i, j \in 1..Len(annot.element) :
          /\ ParentName(annot.element[i]) = "script"
          /\ ParentName(annot.element[j]) = "style"
          /\ \E t \in Range(annot.glossary) : Occurs(t, annot.element[i].s)
          /\ \E t \in Range(annot.glossary) : Occurs(t, annot.element[j].s)

(***************************************************************************)
(* The JSON-LD builders: LLMBlock, SemanticArticle, FAQOptimizer,          *)
(* TechnicalTermOptimizer, CitationOptimizer and generate_schema_markup.   *)
(* A document is a mapping from keys to values, with the keys "@context"   *)
(* and "@type" written ctxt and type; two builds are recorded, the first   *)
(* and a later one, with the clock reading of each.                        *)
(***************************************************************************)

\* the clock advances in ticks; TicksPerSecond of them make one second
MaxClock == 3
TicksPerSecond == 2

\* Python's None, and what `x or default` / `if x` take for false
None == "None"
Truthy(x) == x \notin {None, ""}

SchemaOrg == "https://schema.org"

\* the clock reading rendered at full precision
StampTicks(now) == <<"T", now, "Z">>

\* datetime.utcnow().isoformat(timespec="seconds") + "Z": the reading cut to
\* whole seconds
Stamp(now) == <<"T", now \div TicksPerSecond, "Z">>

\* str.strip() without the trailing end
RECURSIVE LStrip(_)
LStrip(str) ==
    IF str # <<>> /\ Head(str) = " " THEN LStrip(Tail(str)) ELSE str

\* str.strip(): leading and trailing blanks removed
RECURSIVE Strip(_)
Strip(str) ==
    IF str # <<>> /\ str[Len(str)] = " "
    THEN Strip(SubSeq(str, 1, Len(str) - 1))
    ELSE LStrip(str)

\* {**base, **extra} and base.update(extra): a key of extra replaces base's
Merge(base, extra) ==
    [k \in DOMAIN base \cup DOMAIN extra |->
        IF k \in DOMAIN extra THEN extra[k] ELSE base[k]]

\* c.get(k), None when the key is absent
Get(c, k) == IF k \in DOMAIN c THEN c[k] ELSE None

\* LLMBlock.__ft__: the json_ld dictionary
LLMDoc(args, now) ==
    [ctxt |-> SchemaOrg,
     type |-> IF Truthy(args.schema_type) THEN args.schema_type ELSE "WebPageElement",
     role |-> args.role,
     dateCreated |-> Stamp(now),
     llmContext |-> Strip(args.ctx)]

\* SemanticArticle.__ft__: the schema dictionary, metadata merged last
ArticleDoc(args) ==
    Merge([ctxt |-> SchemaOrg,
           type |-> "Article",
           headline |-> args.title,
           articleSection |-> [i \in 1..Len(args.sections) |-> args.sections[i].heading]],
          args.metadata)

\* FAQOptimizer.__ft__: the schema dictionary
FAQDoc(args) ==
    [ctxt |-> SchemaOrg,
     type |-> "FAQPage",
     mainEntity |-> [i \in 1..Len(args.qa_pairs) |->
                        [type |-> "Question",
                         name |-> args.qa_pairs[i][1],
                         acceptedAnswer |-> [type |-> "Answer",
                                             text |-> args.qa_pairs[i][2]]]]]

\* TechnicalTermOptimizer.__ft__: the schema dictionary
GlossaryDoc(args) ==
    [ctxt |-> SchemaOrg,
     type |-> "DefinedTermSet",
     definedTerm |-> [i \in 1..Len(args.glossary) |->
                         [type |-> "DefinedTerm",
                          name |-> args.glossary[i][1],
                          description |-> args.glossary[i][2]]]]

\* CitationOptimizer.__ft__: the schema dictionary
CitationsDoc(args) ==
    [ctxt |-> SchemaOrg,
     type |-> "ScholarlyArticle",
     citation |-> [i \in 1..Len(args.citations) |->
                      [type |-> "CreativeWork",
                       name |-> Get(args.citations[i], "title"),
                       author |-> IF "authors" \in DOMAIN args.citations[i]
                                  THEN args.citations[i].authors ELSE <<>>,
                       publisher |-> Get(args.citations[i], "publisher"),
                       datePublished |-> Get(args.citations[i], "date"),
                       url |-> Get(args.citations[i], "url")]]]

\* generate_schema_markup: the documents it emits, none for a false type
MarkupDocs(args) ==
    IF ~Truthy(args.schema_type) THEN <<>>
    ELSE LET base == [ctxt |-> SchemaOrg, type |-> args.schema_type]
             described == IF Truthy(args.context)
                          THEN Merge(base, [description |-> args.context])
                          ELSE base
         IN <<Merge(described, args.props)>>

\* the arguments the builds are tried on
Ctxs == {<<"x">>, <<" ", "x">>, <<"x", " ">>, <<"x", " ", "x">>}
Roles == {"summary", "qa"}
SchemaTypes == {None, "", "Product"}
Titles == {"t", "u"}
SectionLists == {<<>>, <<[heading |-> "h", level |-> 2]>>,
                 <<[heading |-> "h", level |-> 2], [heading |-> "g", level |-> 3]>>}
Metadatas == {<<>>, [author |-> "ann"], [ctxt |-> "http://example.org"],
              [ctxt |-> "http://example.org", author |-> "ann"]}
QALists == {<<>>, <<<<"q", "a">>>>, <<<<"q", "a">>, <<"r", "b">>>>}
GlossaryItems == {<<>>, <<<<"a", "x">>>>, <<<<"a", "x">>, <<"b", "y">>>>}
CitationLists == {<<>>, <<[id |-> "3", title |-> "T"]>>,
                  <<[id |-> "3", title |-> "T", url |-> "u", authors |-> <<"ann">>]>>}
Contexts == {None, "c"}

\* one recorded build: its kind, its arguments before and after, the clock
\* reading and the documents it made
Build(kind, args, docs) ==
    [kind |-> kind, args |-> args, left |-> args, at |-> schema.clock, docs |-> docs]

\* the build is recorded as the first or as the later one
Record(b) ==
    /\ schema.pc \in {"first", "second"}
    /\ schema' = IF schema.pc = "first"
                 THEN [schema EXCEPT !.pc = "second", !.first = <<b>>]
                 ELSE [schema EXCEPT !.pc = "done", !.second = <<b>>]
    /\ UNCHANGED <<chunkVars, citeVars, sessions, annot, seg>>

SchemaInit ==
    /\ ChunkIdle /\ CiteIdle /\ SessIdle /\ AnnotIdle /\ SegIdle
    /\ \E c \in 0..MaxClock :
          schema = [pc |-> "first", clock |-> c, first |-> <<>>, second |-> <<>>]

\* time passes between and before the builds
Tick ==
    /\ schema.pc \in {"first", "second"}
    /\ schema.clock < MaxClock
    /\ schema' = [schema EXCEPT !.clock = @ + 1]
    /\ UNCHANGED <<chunkVars, citeVars, sessions, annot, seg>>

BuildLLMBlock ==
    \E c \in Ctxs, r \in Roles, st \in SchemaTypes :
        LET args == [ctx |-> c, role |-> r, schema_type |-> st]
        IN Record(Build("llm", args, <<LLMDoc(args, schema.clock)>>))

BuildArticle ==
    \E t \in Titles, ss \in SectionLists, md \in Metadatas :
        LET args == [title |-> t, sections |-> ss, metadata |-> md]
        IN Record(Build("article", args, <<ArticleDoc(args)>>))

BuildFAQ ==
    \E qa \in QALists :
        LET args == [qa_pairs |-> qa]
        IN Record(Build("faq", args, <<FAQDoc(args)>>))

BuildGlossary ==
    \E gl \in GlossaryItems :
        LET args == [glossary |-> gl]
        IN Record(Build("glossary", args, <<GlossaryDoc(args)>>))

BuildCitations ==
    \E cs \in CitationLists :
        LET args == [citations |-> cs]
        IN Record(Build("citations", args, <<CitationsDoc(args)>>))

BuildMarkup ==
    \E st \in SchemaTypes, cx \in Contexts, pr \in Metadatas :
        LET args == [schema_type |-> st, context |-> cx, props |-> pr]
        IN Record(Build("markup", args, MarkupDocs(args)))

SchemaNext ==
    \/ Tick
    \/ BuildLLMBlock
    \/ BuildArticle
    \/ BuildFAQ
    \/ BuildGlossary
    \/ BuildCitations
    \/ BuildMarkup

SchemaSpec == SchemaInit /\ [][SchemaNext]_vars

(***************************************************************************)
(* Claims about the JSON-LD builders                                       *)
(***************************************************************************)

SchemaRunning == schema.pc \in {"first", "second", "done"}

\* the builds recorded so far
Builds == IF SchemaRunning THEN schema.first \o schema.second ELSE <<>>

\* both builds are recorded, of one kind and with equal arguments
SameCall ==
    /\ SchemaRunning /\ schema.pc = "done"
    /\ schema.first[1].kind = schema.second[1].kind
    /\ schema.first[1].args = schema.second[1].args

\* C16 (fixed context identifier): every document built so far has
\* "https://schema.org" under @context, whatever metadata or props were merged.
C16_ContextFixed ==
    \A i \in 1..Len(Builds) :
        \A j \in 1..Len(Builds[i].docs) :
            Builds[i].docs[j].ctxt = SchemaOrg

\* C17 as stated (pure in the arguments): two builds of one kind with equal
\* arguments made equal documents, whatever the clock read at either, and
\* each left its arguments as they were.
C17_PureInArguments ==
    /\ \A i \in 1..Len(Builds) : Builds[i].left = Builds[i].args
    /\ SameCall => schema.first[1].docs = schema.second[1].docs

\* C17 amended (pure in the arguments and, for the LLM-context block, the
\* second of the clock): two builds of one kind with equal arguments made
\* equal documents whatever the clock read, except that two LLM-context
\* blocks are only equal when built within the same second; each build left
\* its arguments as they were.
C17_PureUpToTimestamp ==
    /\ \A i \in 1..Len(Builds) : Builds[i].left = Builds[i].args
    /\ SameCall =>
          \/ schema.first[1].docs = schema.second[1].docs
          \/ /\ schema.first[1].kind = "llm"
             /\ schema.first[1].at \div TicksPerSecond
                  # schema.second[1].at \div TicksPerSecond

\* two LLM-context blocks with equal arguments built at different clock
\* readings within one second, and made equal
C17_Witness ==
    /\ SameCall
    /\ schema.first[1].kind = "llm"
    /\ schema.first[1].at # schema.second[1].at
    /\ schema.first[1].at \div TicksPerSecond = schema.second[1].at \div TicksPerSecond
    /\ schema.first[1].docs = schema.second[1].docs

(***************************************************************************)
(* Further claims about the chunker                                        *)
(***************************************************************************)

\* C21 (chunking makes progress): for a valid configuration, every chunk
\* emitted so far is non-empty and holds a block that is in no earlier chunk,
\* there are never more chunks than blocks with text, and a run over no such
\* block returns no chunk.
C21_ChunkProgress ==
    (pc \in {"loop", "done"} /\ ValidCfg) =>
        /\ \A k \in 1..Len(chunks) : chunks[k] # <<>> /\ FirstSeen(k) # <<>>
        /\ Len(chunks) <= Len(BlockSeq)
        /\ (ChunkDone /\ BlockSeq = <<>>) => chunks = <<>>

\* a returned run with as many chunks as blocks, three at least, one of them
\* opening with a carried-over block
C21_Witness ==
    /\ ChunkDone /\ ValidCfg
    /\ Len(chunks) >= 3
    /\ Len(chunks) = Len(BlockSeq)
    /\ \E k \in 2..Len(chunks) : Len(FirstSeen(k)) < Len(chunks[k])

(***************************************************************************)
(* Block segmentation in ContentChunker.__ft__: soup.find_all over the     *)
(* tag list, then the loop's test of each block's stripped text.  The      *)
(* parsed tree is the sequence of its elements in document order; an       *)
(* element has a tag, the position of its parent (0 for a top-level        *)
(* element) and the text that is its own.                                  *)
(***************************************************************************)

MaxTreeNodes == 3

\* the tags and texts the trees are built from
SegTags == {"p", "h6", "blockquote", "div"}
SegTexts == {<<>>, <<" ">>, <<" ", "x", " ", "x">>}

\* soup.find_all([...]): the tag list
AllowListNoQuote == {"p", "li", "h1", "h2", "h3", "h4", "h5", "h6"}
AllowList == {"p", "li", "h1", "h2", "h3", "h4", "h5", "h6", "blockquote"}

RECURSIVE IsUnder(_, _, _)
\* element j is element i or lies inside it
IsUnder(tr, j, i) ==
    IF j = i THEN TRUE
    ELSE IF j < i \/ j = 0 THEN FALSE
    ELSE IsUnder(tr, tr[j].parent, i)

\* the elements a next element can be put into: the last one and those
\* around it, or none
OpenElements(tr) == {0} \cup {i \in 1..Len(tr) : IsUnder(tr, Len(tr), i)}

RECURSIVE TreesUpTo(_)
\* the parsed trees of at most n elements
TreesUpTo(n) ==
    IF n = 0 THEN {<<>>}
    ELSE LET shorter == TreesUpTo(n - 1)
         IN shorter \cup
            UNION {{Append(tr, [tag |-> tg, parent |-> pa, text |-> tx]) :
                        tg \in SegTags, pa \in OpenElements(tr), tx \in SegTexts} :
                   tr \in {q \in shorter : Len(q) = n - 1}}

RECURSIVE GetTextFrom(_, _, _)
\* the stripped strings of element i and of what lies inside it, from
\* element j on, joined without a separator
GetTextFrom(tr, i, j) ==
    IF j > Len(tr) THEN <<>>
    ELSE (IF IsUnder(tr, j, i) THEN Strip(tr[j].text) ELSE <<>>)
         \o GetTextFrom(tr, i, j + 1)

\* b.get_text(strip=True)
GetText(tr, i) == GetTextFrom(tr, i, i)

RECURSIVE WordCount(_)
\* len(text.split())
WordCount(str) ==
    IF str = <<>> THEN 0
    ELSE IF Head(str) = " " THEN WordCount(Tail(str))
    ELSE IF Len(str) > 1 /\ str[2] # " " THEN WordCount(Tail(str))
    ELSE 1 + WordCount(Tail(str))

\* soup.find_all([...]): the elements with a listed tag, in document order
FindAll(tr) ==
    SelectSeq([j \in 1..Len(tr) |-> j], LAMBDA j : tr[j].tag \in AllowList)

SegInit ==
    /\ ChunkIdle /\ CiteIdle /\ SessIdle /\ AnnotIdle /\ SchemaIdle
    /\ \E tr \in TreesUpTo(MaxTreeNodes) :
          seg = [pc |-> "parse", tree |-> tr, found |-> <<>>, bi |-> 0, fed |-> <<>>]

\* soup = BeautifulSoup(...); blocks = soup.find_all([...])
FindBlocks ==
    /\ seg.pc = "parse"
    /\ seg' = [seg EXCEPT !.pc = "loop", !.found = FindAll(seg.tree), !.bi = 1]
    /\ UNCHANGED <<chunkVars, citeVars, sessions, annot, schema>>

\* if not block_text: continue
SegSkipEmpty ==
    /\ seg.pc = "loop"
    /\ seg.bi <= Len(seg.found)
    /\ GetText(seg.tree, seg.found[seg.bi]) = <<>>
    /\ seg' = [seg EXCEPT !.bi = @ + 1]
    /\ UNCHANGED <<chunkVars, citeVars, sessions, annot, schema>>

\* the block has text: it goes to the chunk assembly with its estimate
SegFeed ==
    /\ seg.pc = "loop"
    /\ seg.bi <= Len(seg.found)
    /\ LET b == seg.found[seg.bi]
           block_text == GetText(seg.tree, b)
       IN /\ block_text # <<>>
          /\ seg' = [seg EXCEPT !.bi = @ + 1,
                                !.fed = Append(@, [node |-> b,
                                                   t |-> est(WordCount(block_text))])]
    /\ UNCHANGED <<chunkVars, citeVars, sessions, annot, schema>>

\* the loop over blocks ends
SegFinish ==
    /\ seg.pc = "loop"
    /\ seg.bi > Len(seg.found)
    /\ seg' = [seg EXCEPT !.pc = "done"]
    /\ UNCHANGED <<chunkVars, citeVars, sessions, annot, schema>>

SegNext == FindBlocks \/ SegSkipEmpty \/ SegFeed \/ SegFinish

SegSpec == SegInit /\ [][SegNext]_vars

(***************************************************************************)
(* Claims about block segmentation                                         *)
(***************************************************************************)

SegDone == seg.pc = "done"

\* the element or something inside it has a character that is not blank
HasVisibleText(tr, i) ==
    \E j \in i..Len(tr) :
        /\ IsUnder(tr, j, i)
        /\ \E k \in 1..Len(tr[j].text) : tr[j].text[k] # " "

\* paragraph, list item, headings 1 to 6, quote
BlockLevel(tg) ==
    tg \in {"p", "li", "blockquote"} \cup {"h1", "h2", "h3", "h4", "h5", "h6"}

\* C22 (block segmentation): the blocks fed to the chunk assembly are exactly
\* the elements of the tree whose tag is a paragraph, list item, heading or
\* quote and whose text has a non-blank character, each once, in document
\* order; no other element is a block.
C22_BlockSegmentation ==
    SegDone =>
        [k \in 1..Len(seg.fed) |-> seg.fed[k].node]
          = SelectSeq([j \in 1..Len(seg.tree) |-> j],
                      LAMBDA j : /\ BlockLevel(seg.tree[j].tag)
                                 /\ HasVisibleText(seg.tree, j))

\* a segmented tree with a paragraph inside a quote, both blocks, the quote
\* having no text of its own; a blank paragraph that was dropped; nothing else
C22_Witness ==
    /\ SegDone
    /\ Len(seg.fed) = 2
    /\ seg.tree[seg.fed[2].node].parent = seg.fed[1].node
    /\ seg.tree[seg.fed[1].node].tag = "blockquote"
    /\ Strip(seg.tree[seg.fed[1].node].text) = <<>>
    /\ \E j \in 1..Len(seg.tree) :
          seg.tree[j].tag = "p" /\ seg.tree[j].text = <<" ">> /\ seg.tree[j].parent = 0

=============================================================================
